---- MODULE Spec2Model ----
(***************************************************************************)
(* Model of src/pyrho/__init__.py: the module body of the pyrho package.   *)
(*                                                                         *)
(*   3  __author__ = """Jimmy Shen"""                                      *)
(*   4  __email__ = "jmmshn@gmail.com"                                     *)
(*   6  from importlib.metadata import version, PackageNotFoundError       *)
(*   8  try:                                                               *)
(*   9      __version__ = version(__name__)                                *)
(*  10  except PackageNotFoundError:                                       *)
(*  11      __version__ = "unknown"                                        *)
(*                                                                         *)
(* The state is the namespace of each load of the module (its three        *)
(* attributes and the position in the module body) and the environment     *)
(* the lookup reads: the installed-package registry, keyed by              *)
(* distribution name.  Python values are tagged tuples so that a string,   *)
(* None and an unbound name are all distinct.                              *)
(***************************************************************************)
EXTENDS Naturals, FiniteSets, Sequences, TLC

VARIABLES
    registry,          \* distribution name -> entry of the installed-package registry
    missingKeyRaises,  \* the interpreter's importlib.metadata raises KeyError for a
                       \* metadata key that is missing (TRUE) or returns None (FALSE)
    changes,           \* number of registry changes made by the environment so far
    pc,                \* per load: position in the module body
    __author__,        \* per load: the module attribute
    __email__,         \* per load: the module attribute
    __version__,       \* per load: the module attribute
    exc,               \* per load: the exception in flight, "none" when there is none
    queries,           \* per load: number of calls of version() made (history)
    assigns,           \* per load: number of assignments to __version__ made (history)
    branch,            \* per load: the branch that assigned __version__ (history)
    regAtQuery,        \* per load: the registry as it was when version() was called (history)
    outcome            \* per load: what the call of version() produced (history)

vars == <<registry, missingKeyRaises, changes, pc, __author__, __email__,
          __version__, exc, queries, assigns, branch, regAtQuery, outcome>>

-----------------------------------------------------------------------------
(* Bounds of the model.                                                    *)

\* The environment installs, upgrades or removes a distribution at most this often.
MaxChanges == 2

\* Two loads of the module: two interpreter processes, or a load and a reload.
Loads == {1, 2}

\* The distribution names the registry may hold an entry for.
DistNames == {"pyrho", "mp-pyrho"}

\* The Version fields an entry may record ("unknown" included: nothing keeps a
\* distribution from recording the very string the module uses as its fallback).
VersionStrings == {"0.1.0", "0.2.0", "unknown"}

-----------------------------------------------------------------------------
(* Python values.                                                          *)

PyStr(s) == <<"str", s>>
PyNone == <<"NoneType">>
Unbound == <<"unbound">>

IsStr(v) == Len(v) = 2 /\ v[1] = "str"

(* Registry entries: no distribution of that name, or a distribution whose *)
(* metadata records a Version field or lacks it.                           *)
NotInstalled == <<"absent">>
MissingKey == <<"missing">>
Dist(field) == <<"dist", field>>
VersionFields == {PyStr(s) : s \in VersionStrings} \cup {MissingKey}
Entries == {NotInstalled} \cup {Dist(f) : f \in VersionFields}

IsDist(e) == Len(e) = 2 /\ e[1] = "dist"
RecordsVersion(e) == IsDist(e) /\ IsStr(e[2])

(* What a call produces: a returned value or a raised exception.           *)
Return(v) == [kind |-> "return", value |-> v, exc |-> "none"]
Raise(e) == [kind |-> "raise", value |-> Unbound, exc |-> e]
NoOutcome == [kind |-> "none", value |-> Unbound, exc |-> "none"]
NoSnapshot == <<>>

-----------------------------------------------------------------------------
(* The module's literals and names.                                        *)

\* line 3
AuthorLiteral == PyStr("Jimmy Shen")
\* line 4
EmailLiteral == PyStr("jmmshn@gmail.com")
\* the module's import name, the value of __name__ in its body
__name__ == "pyrho"

\* line 1 names the distribution "mp-pyrho"; a lookup under it is the mutant.
QueriedName_dist == "mp-pyrho"
\* line 9: the argument of version()
QueriedName == __name__

\* `__version__ = None` in the handler is the mutant.
Fallback_none == PyNone
\* line 11
Fallback == PyStr("unknown")

\* A bare `except:` is the mutant.
Handles_any(e) == TRUE
\* line 10: the except clause matches PackageNotFoundError only
Handles(e) == e = "PackageNotFoundError"

(***************************************************************************)
(* importlib.metadata.version(distribution_name), as imported on line 6:   *)
(* distribution(name).version, that is metadata['Version'] of the          *)
(* distribution found under the name.  An empty name raises ValueError, a  *)
(* name without distribution raises PackageNotFoundError, and a            *)
(* distribution whose metadata has no Version field yields None or raises  *)
(* KeyError, depending on the interpreter's version of the library.        *)
(***************************************************************************)
version(distribution_name) ==
    IF distribution_name = "" THEN Raise("ValueError")
    ELSE IF registry[distribution_name] = NotInstalled
         THEN Raise("PackageNotFoundError")
    ELSE IF registry[distribution_name][2] = MissingKey
         THEN (IF missingKeyRaises THEN Raise("KeyError") ELSE Return(PyNone))
    ELSE Return(registry[distribution_name][2])

-----------------------------------------------------------------------------
(* The initial state: a registry in any condition, and no load started.    *)

Init ==
    /\ registry \in [DistNames -> Entries]
    /\ missingKeyRaises \in BOOLEAN
    /\ changes = 0
    /\ pc = [m \in Loads |-> "line3"]
    /\ __author__ = [m \in Loads |-> Unbound]
    /\ __email__ = [m \in Loads |-> Unbound]
    /\ __version__ = [m \in Loads |-> Unbound]
    /\ exc = [m \in Loads |-> "none"]
    /\ queries = [m \in Loads |-> 0]
    /\ assigns = [m \in Loads |-> 0]
    /\ branch = [m \in Loads |-> "none"]
    /\ regAtQuery = [m \in Loads |-> NoSnapshot]
    /\ outcome = [m \in Loads |-> NoOutcome]

-----------------------------------------------------------------------------
(* The statements of the module body.                                      *)

\* line 3
AssignAuthor(m) ==
    /\ pc[m] = "line3"
    /\ __author__' = [__author__ EXCEPT ![m] = AuthorLiteral]
    /\ pc' = [pc EXCEPT ![m] = "line4"]
    /\ UNCHANGED <<registry, missingKeyRaises, changes, __email__, __version__,
                   exc, queries, assigns, branch, regAtQuery, outcome>>

\* line 4
AssignEmail(m) ==
    /\ pc[m] = "line4"
    /\ __email__' = [__email__ EXCEPT ![m] = EmailLiteral]
    /\ pc' = [pc EXCEPT ![m] = "line6"]
    /\ UNCHANGED <<registry, missingKeyRaises, changes, __author__, __version__,
                   exc, queries, assigns, branch, regAtQuery, outcome>>

\* line 6: binds the names version and PackageNotFoundError
ImportFrom(m) ==
    /\ pc[m] = "line6"
    /\ pc' = [pc EXCEPT ![m] = "line9"]
    /\ UNCHANGED <<registry, missingKeyRaises, changes, __author__, __email__,
                   __version__, exc, queries, assigns, branch, regAtQuery, outcome>>

\* Mutant: the version is a literal of the source, not the value looked up.
TryVersion_hardcoded(m) ==
    /\ pc[m] = "line9"
    /\ queries' = [queries EXCEPT ![m] = @ + 1]
    /\ regAtQuery' = [regAtQuery EXCEPT ![m] = registry]
    /\ outcome' = [outcome EXCEPT ![m] = version(QueriedName)]
    /\ IF version(QueriedName).kind = "return"
       THEN /\ __version__' = [__version__ EXCEPT ![m] = PyStr("0.1.0")]
            /\ assigns' = [assigns EXCEPT ![m] = @ + 1]
            /\ branch' = [branch EXCEPT ![m] = "try"]
            /\ pc' = [pc EXCEPT ![m] = "imported"]
            /\ UNCHANGED exc
       ELSE /\ exc' = [exc EXCEPT ![m] = version(QueriedName).exc]
            /\ pc' = [pc EXCEPT ![m] = "line10"]
            /\ UNCHANGED <<__version__, assigns, branch>>
    /\ UNCHANGED <<registry, missingKeyRaises, changes, __author__, __email__>>

\* Mutant: the result is bound to the wrong attribute (__author__).
TryVersion_wrongtarget(m) ==
    /\ pc[m] = "line9"
    /\ queries' = [queries EXCEPT ![m] = @ + 1]
    /\ regAtQuery' = [regAtQuery EXCEPT ![m] = registry]
    /\ outcome' = [outcome EXCEPT ![m] = version(QueriedName)]
    /\ IF version(QueriedName).kind = "return"
       THEN /\ __author__' = [__author__ EXCEPT ![m] = version(QueriedName).value]
            /\ pc' = [pc EXCEPT ![m] = "imported"]
            /\ UNCHANGED <<__version__, assigns, branch, exc>>
       ELSE /\ exc' = [exc EXCEPT ![m] = version(QueriedName).exc]
            /\ pc' = [pc EXCEPT ![m] = "line10"]
            /\ UNCHANGED <<__version__, __author__, assigns, branch>>
    /\ UNCHANGED <<registry, missingKeyRaises, changes, __email__>>

\* lines 8-9: the try body.  version(__name__) either returns, and its value is
\* bound to __version__, or raises, and control goes to the except clause.
TryVersion(m) ==
    /\ pc[m] = "line9"
    /\ queries' = [queries EXCEPT ![m] = @ + 1]
    /\ regAtQuery' = [regAtQuery EXCEPT ![m] = registry]
    /\ outcome' = [outcome EXCEPT ![m] = version(QueriedName)]
    /\ IF version(QueriedName).kind = "return"
       THEN /\ __version__' = [__version__ EXCEPT ![m] = version(QueriedName).value]
            /\ assigns' = [assigns EXCEPT ![m] = @ + 1]
            /\ branch' = [branch EXCEPT ![m] = "try"]
            /\ pc' = [pc EXCEPT ![m] = "imported"]
            /\ UNCHANGED exc
       ELSE /\ exc' = [exc EXCEPT ![m] = version(QueriedName).exc]
            /\ pc' = [pc EXCEPT ![m] = "line10"]
            /\ UNCHANGED <<__version__, assigns, branch>>
    /\ UNCHANGED <<registry, missingKeyRaises, changes, __author__, __email__>>

\* Mutant: the handler falls back to the version recorded under the
\* distribution name of the docstring, when there is one.
ExceptClause_distname(m) ==
    /\ pc[m] = "line10"
    /\ IF Handles(exc[m])
       THEN /\ __version__' = [__version__ EXCEPT ![m] =
                   IF RecordsVersion(registry["mp-pyrho"])
                   THEN registry["mp-pyrho"][2] ELSE Fallback]
            /\ assigns' = [assigns EXCEPT ![m] = @ + 1]
            /\ branch' = [branch EXCEPT ![m] = "except"]
            /\ exc' = [exc EXCEPT ![m] = "none"]
            /\ pc' = [pc EXCEPT ![m] = "imported"]
       ELSE /\ pc' = [pc EXCEPT ![m] = "error"]
            /\ UNCHANGED <<__version__, assigns, branch, exc>>
    /\ UNCHANGED <<registry, missingKeyRaises, changes, __author__, __email__,
                   queries, regAtQuery, outcome>>

\* lines 10-11: the except clause.  A PackageNotFoundError is handled: the
\* fallback is bound to __version__ and the module is imported.  Any other
\* exception matches no clause and leaves the module body: the import raises.
ExceptClause(m) ==
    /\ pc[m] = "line10"
    /\ IF Handles(exc[m])
       THEN /\ __version__' = [__version__ EXCEPT ![m] = Fallback]
            /\ assigns' = [assigns EXCEPT ![m] = @ + 1]
            /\ branch' = [branch EXCEPT ![m] = "except"]
            /\ exc' = [exc EXCEPT ![m] = "none"]
            /\ pc' = [pc EXCEPT ![m] = "imported"]
       ELSE /\ pc' = [pc EXCEPT ![m] = "error"]
            /\ UNCHANGED <<__version__, assigns, branch, exc>>
    /\ UNCHANGED <<registry, missingKeyRaises, changes, __author__, __email__,
                   queries, regAtQuery, outcome>>

\* The environment: a distribution is installed, upgraded or removed.  The
\* module never does this; it is what "the registry changes" means.
RegistryChange(n, e) ==
    /\ changes < MaxChanges
    /\ e # registry[n]
    /\ registry' = [registry EXCEPT ![n] = e]
    /\ changes' = changes + 1
    /\ UNCHANGED <<missingKeyRaises, pc, __author__, __email__, __version__,
                   exc, queries, assigns, branch, regAtQuery, outcome>>

Next ==
    \/ \E m \in Loads : AssignAuthor(m)
    \/ \E m \in Loads : AssignEmail(m)
    \/ \E m \in Loads : ImportFrom(m)
    \/ \E m \in Loads : TryVersion(m)
    \/ \E m \in Loads : ExceptClause(m)
    \/ \E n \in DistNames, e \in Entries : RegistryChange(n, e)

Spec == Init /\ [][Next]_vars

-----------------------------------------------------------------------------
(* Vocabulary of the properties.                                           *)

Imported(m) == pc[m] = "imported"
Failed(m) == pc[m] = "error"
Ended(m) == Imported(m) \/ Failed(m)

TypeOK ==
    /\ registry \in [DistNames -> Entries]
    /\ missingKeyRaises \in BOOLEAN
    /\ changes \in 0..MaxChanges
    /\ pc \in [Loads -> {"line3", "line4", "line6", "line9", "line10", "imported", "error"}]

-----------------------------------------------------------------------------
(* Properties.                                                             *)

\* C1: when the registry records a version string under the package's name at
\* the time of the lookup, the imported module's __version__ is that very
\* string, unchanged.
C1_RegisteredVersionExposed ==
    \A m \in Loads :
        (Ended(m) /\ RecordsVersion(regAtQuery[m][__name__]))
            => (Imported(m) /\ __version__[m] = regAtQuery[m][__name__][2])

\* A load that found "0.2.0" recorded under "pyrho" and exposes it, while the
\* registry has moved on since.
C1_Witness ==
    \E m \in Loads :
        /\ Imported(m)
        /\ regAtQuery[m][__name__] = Dist(PyStr("0.2.0"))
        /\ __version__[m] = PyStr("0.2.0")
        /\ registry[__name__] # regAtQuery[m][__name__]

\* C2: when the registry has no entry under the package's name at the time of
\* the lookup, the failure is caught inside the module: the load ends imported,
\* with no exception in flight, and __version__ is exactly "unknown".
C2_UnregisteredGivesUnknown ==
    \A m \in Loads :
        (Ended(m) /\ regAtQuery[m][__name__] = NotInstalled)
            => /\ Imported(m)
               /\ exc[m] = "none"
               /\ __version__[m] = PyStr("unknown")

\* A load that found no entry under "pyrho" and went through the handler.
C2_Witness ==
    \E m \in Loads :
        /\ Imported(m)
        /\ regAtQuery[m][__name__] = NotInstalled
        /\ outcome[m] = Raise("PackageNotFoundError")
        /\ branch[m] = "except"
        /\ __version__[m] = PyStr("unknown")

\* C3 as claimed: whatever the lookup produces, no load ends in the error
\* state (import never raises).
C3_ImportNeverRaises ==
    \A m \in Loads : ~Failed(m)

\* What the code does instead: a load whose lookup returned a value or raised
\* PackageNotFoundError ends imported with no exception in flight; a load
\* whose lookup raised any other exception is never imported, and when it ends
\* it ends in the error state with that exception surfaced to the importer.
C3_OnlyNotFoundIsCaught ==
    \A m \in Loads :
        /\ (outcome[m].kind = "return" \/ outcome[m] = Raise("PackageNotFoundError"))
               => (~Failed(m) /\ (Ended(m) => exc[m] = "none"))
        /\ (outcome[m].kind = "raise" /\ outcome[m].exc # "PackageNotFoundError")
               => (~Imported(m) /\ (Ended(m) => exc[m] = outcome[m].exc))
        /\ Ended(m) => outcome[m].kind # "none"

\* Both cases at once: one load recovered from PackageNotFoundError, the other
\* surfaced a KeyError.
C3_Witness ==
    \E m1, m2 \in Loads :
        /\ Imported(m1) /\ outcome[m1] = Raise("PackageNotFoundError")
        /\ Failed(m2) /\ outcome[m2] = Raise("KeyError")

\* C4 as claimed: once a load is imported, __version__ is bound to a string
\* (never None, never unbound), whichever branch bound it.
C4_VersionIsString ==
    \A m \in Loads : Imported(m) => IsStr(__version__[m])

C6_ExactlyOneAssignment ==
    \A m \in Loads : Ended(m) => (queries[m] = 1 /\ assigns[m] = 1)

\* What the code does instead: a load queries the registry at most once and assigns
\* __version__ at most once; an imported load did each exactly once; a load
\* that ended in the error state queried once and assigned nothing; and once a
\* load is imported it stays imported and its __version__ never changes,
\* whatever happens to the registry.
C6_ResolvedOncePerLoad ==
    /\ [](\A m \in Loads :
            /\ queries[m] <= 1 /\ assigns[m] <= 1
            /\ Imported(m) => (queries[m] = 1 /\ assigns[m] = 1)
            /\ Failed(m) => (queries[m] = 1 /\ assigns[m] = 0))
    /\ [][\A m \in Loads :
            Imported(m) => /\ pc'[m] = "imported"
                           /\ __version__'[m] = __version__[m]
                           /\ queries'[m] = queries[m]
                           /\ assigns'[m] = assigns[m]]_vars

\* An imported load whose registry entry has changed since the lookup, and a
\* load that ended in the error state.
C6_Witness ==
    \E m1, m2 \in Loads :
        /\ Imported(m1) /\ assigns[m1] = 1 /\ queries[m1] = 1
        /\ registry[__name__] # regAtQuery[m1][__name__]
        /\ Failed(m2) /\ assigns[m2] = 0

\* C7: when, at the time of the lookup, a version is recorded under "mp-pyrho"
\* and there is no entry under "pyrho", the load ends imported with
\* __version__ = "unknown": the lookup goes by the import name.
C7_QueriedUnderImportName ==
    \A m \in Loads :
        (/\ Ended(m)
         /\ RecordsVersion(regAtQuery[m]["mp-pyrho"])
         /\ regAtQuery[m]["pyrho"] = NotInstalled)
            => (Imported(m) /\ __version__[m] = PyStr("unknown"))

\* A load run while "0.1.0" was recorded under "mp-pyrho" only.
C7_Witness ==
    \E m \in Loads :
        /\ Imported(m)
        /\ regAtQuery[m]["mp-pyrho"] = Dist(PyStr("0.1.0"))
        /\ regAtQuery[m]["pyrho"] = NotInstalled
        /\ __version__[m] = PyStr("unknown")

\* C8: two loads whose lookups saw the same registry entry under the queried
\* name end the same way, and with equal __version__ values, whatever else
\* the registry held at either time.
C8_DeterministicInRegistry ==
    \A m1, m2 \in Loads :
        (/\ Ended(m1) /\ Ended(m2)
         /\ regAtQuery[m1][__name__] = regAtQuery[m2][__name__])
            => /\ pc[m1] = pc[m2]
               /\ __version__[m1] = __version__[m2]

\* Two imported loads that saw the same entry under "pyrho" and different
\* entries under "mp-pyrho".
C8_Witness ==
    /\ Imported(1) /\ Imported(2)
    /\ regAtQuery[1][__name__] = regAtQuery[2][__name__]
    /\ regAtQuery[1]["mp-pyrho"] # regAtQuery[2]["mp-pyrho"]
    /\ __version__[1] = __version__[2]

\* C9: from the lookup on, __author__ and __email__ hold their literals, in
\* the try branch, in the handler and after the load; the statements of the
\* try/except leave them as they are; and no statement of the module changes
\* the registry.
C9_MetadataAndRegistryUntouched ==
    /\ [](\A m \in Loads :
            pc[m] \in {"line9", "line10", "imported", "error"}
                => (__author__[m] = AuthorLiteral /\ __email__[m] = EmailLiteral))
    /\ [][\A m \in Loads :
            pc[m] \in {"line9", "line10"}
                => (__author__'[m] = __author__[m] /\ __email__'[m] = __email__[m])]_vars
    /\ [][pc' # pc => registry' = registry]_vars

\* One load imported through the try body, one through the handler, both with
\* their metadata in place.
C9_Witness ==
    \E m1, m2 \in Loads :
        /\ Imported(m1) /\ branch[m1] = "try"
        /\ Imported(m2) /\ branch[m2] = "except"
        /\ __author__[m1] = PyStr("Jimmy Shen") /\ __email__[m2] = PyStr("jmmshn@gmail.com")

====
